---- MODULE Spec2Model ----
(***************************************************************************)
(* A model of fuzzyreplacer.py: the trie built by dict_to_tree, the        *)
(* streaming matcher FuzzyReplacerHelper, select_matches and the           *)
(* reconstruction loop of FuzzyReplacer.process.                           *)
(*                                                                         *)
(* Strings are sequences of one-character strings.  Scores are exact       *)
(* rationals <<numerator, denominator>>.  A Python dict is the sequence of *)
(* its items in insertion order; a tree node is such a dict, held in an    *)
(* arena (a sequence of nodes) and referred to by its index.               *)
(***************************************************************************)
EXTENDS Integers, Sequences, FiniteSets, TLC

VARIABLES pc, to_by_from, cutoff, tree, s, words, spaces, i, states,
          matches, selected, todo, out, memo

vars == <<pc, to_by_from, cutoff, tree, s, words, spaces, i, states,
          matches, selected, todo, out, memo>>

\* ---------------------------------------------------------------- bounds
MaxLen == 4
MaxEntries == 2

\* ---------------------------------------------------------------- inputs
TextChars == {"a", "B", " "}
Phrases == { <<>>, <<"a">>, <<"A">>, <<"B">>, <<"a", " ", "B">> }
Replacements == { <<"X">>, <<"b">> }
DefaultCutoff == <<17, 20>>
Cutoffs == { <<1, 2>>, DefaultCutoff }

RECURSIVE SeqsUpTo(_, _)
SeqsUpTo(S, n) ==
    IF n = 0 THEN { <<>> }
    ELSE LET shorter == SeqsUpTo(S, n - 1)
         IN shorter \cup { Append(q, x) : q \in shorter, x \in S }

Texts == SeqsUpTo(TextChars, MaxLen)

Entries == [k : Phrases, v : Replacements]

\* a Python dict has one item per key: the phrases of a mapping are distinct
Mappings ==
    { m \in SeqsUpTo(Entries, MaxEntries) :
        \A x, y \in 1..Len(m) : x # y => m[x].k # m[y].k }

\* ---------------------------------------------------------------- python
NONE == 0
NoScore == <<>>

Min(a, b) == IF a <= b THEN a ELSE b
Max(a, b) == IF a >= b THEN a ELSE b

\* seq[lo:hi] with Python's 0-based, clamped, negative-from-the-end indices
PyIndex(n, x) == IF x < 0 THEN Max(n + x, 0) ELSE Min(x, n)
PySlice(q, lo, hi) == SubSeq(q, PyIndex(Len(q), lo) + 1, PyIndex(Len(q), hi))
PyFrom(q, lo) == PySlice(q, lo, Len(q))
PyUpTo(q, hi) == PySlice(q, 0, hi)

RECURSIVE Flatten(_)
Flatten(qq) == IF qq = <<>> THEN <<>> ELSE Head(qq) \o Flatten(Tail(qq))

\* ------------------------------------------------------------- normalize
IsSpace(c) == c = " "
IsWordChar(c) == ~IsSpace(c)
IsAlpha(c) == c \in {"a", "b", "A", "B", "X"}
Lower(c) == CASE c = "A" -> "a" [] c = "B" -> "b" [] c = "X" -> "x" [] OTHER -> c

RECURSIVE MapFilter(_)
MapFilter(w) ==
    IF w = <<>> THEN <<>>
    ELSE LET c == Lower(Head(w))
         IN (IF IsAlpha(c) THEN <<c>> ELSE <<>>) \o MapFilter(Tail(w))

_default_normalize(word) == MapFilter(word)

\* --------------------------------------------------------------- difflib
\* difflib.SequenceMatcher(a = chunk, b = word); no junk, and autojunk only
\* acts on sequences of 200 elements or more.  Offsets are 0-based as in
\* Python: a[x] of the code is a[x + 1] here.
Count(q, c) == Cardinality({ x \in 1..Len(q) : q[x] = c })

\* length of the common run of a[x:ahi] and b[y:bhi] starting at (x, y)
RECURSIVE RunLen(_, _, _, _, _, _)
RunLen(a, b, x, y, ahi, bhi) ==
    IF x < ahi /\ y < bhi /\ a[x + 1] = b[y + 1]
    THEN 1 + RunLen(a, b, x + 1, y + 1, ahi, bhi)
    ELSE 0

\* find_longest_match: the longest block, of those the one starting earliest
\* in a, of those the one starting earliest in b; <<x, y, 0>> when none
find_longest_match(a, b, alo, ahi, blo, bhi) ==
    LET cand == { <<x, y>> : x \in alo..(ahi - 1), y \in blo..(bhi - 1) }
        size(p) == RunLen(a, b, p[1], p[2], ahi, bhi)
        best == CHOOSE p \in cand :
                    \A q \in cand :
                        \/ size(p) > size(q)
                        \/ /\ size(p) = size(q)
                           /\ \/ p[1] < q[1]
                              \/ p[1] = q[1] /\ p[2] <= q[2]
    IN IF cand = {} \/ size(best) = 0
       THEN <<alo, blo, 0>>
       ELSE <<best[1], best[2], size(best)>>

\* get_matching_blocks: the total size of the blocks found by splitting
\* around the longest match, left part then right part
RECURSIVE MatchedSize(_, _, _, _, _, _)
MatchedSize(a, b, alo, ahi, blo, bhi) ==
    LET m == find_longest_match(a, b, alo, ahi, blo, bhi)
        x == m[1]
        y == m[2]
        k == m[3]
    IN IF k = 0 THEN 0
       ELSE k
            + (IF alo < x /\ blo < y
               THEN MatchedSize(a, b, alo, x, blo, y) ELSE 0)
            + (IF x + k < ahi /\ y + k < bhi
               THEN MatchedSize(a, b, x + k, ahi, y + k, bhi) ELSE 0)

\* _calculate_ratio: 2.0 * matches / length, and 1.0 when length is 0
RECURSIVE Gcd(_, _)
Gcd(x, y) == IF y = 0 THEN x ELSE Gcd(y, x % y)
Frac(n, d) == LET g == Gcd(n, d) IN <<n \div g, d \div g>>

_calculate_ratio(m, length) == IF length > 0 THEN Frac(2 * m, length) ELSE <<1, 1>>

ratio(a, b) ==
    _calculate_ratio(MatchedSize(a, b, 0, Len(a), 0, Len(b)), Len(a) + Len(b))

RECURSIVE SumMin(_, _, _)
SumMin(cs, a, b) ==
    IF cs = {} THEN 0
    ELSE LET c == CHOOSE x \in cs : TRUE
         IN Min(Count(a, c), Count(b, c)) + SumMin(cs \ {c}, a, b)

quick_ratio(a, b) ==
    _calculate_ratio(SumMin({ a[x] : x \in 1..Len(a) }, a, b), Len(a) + Len(b))

real_quick_ratio(a, b) ==
    _calculate_ratio(Min(Len(a), Len(b)), Len(a) + Len(b))

\* exact comparisons of rationals with positive denominators
GE(p, q) == p[1] * q[2] >= q[1] * p[2]
GT(p, q) == p[1] * q[2] > q[1] * p[2]
Times(p, q) == Frac(p[1] * q[1], p[2] * q[2])

\* word_matches(chunk) of _consume: the ratio when it reaches the cutoff
word_matches(chunk, word, cut) ==
    IF GE(real_quick_ratio(chunk, word), cut) /\ GE(quick_ratio(chunk, word), cut)
    THEN LET r == ratio(chunk, word)
         IN IF GE(r, cut) THEN r ELSE NoScore
    ELSE NoScore

\* truth value of `if score:` (None and 0.0 are false)
Truthy(score) == score # NoScore /\ score[1] # 0

\* ---------------------------------------------------------- dict_to_tree
\* str.split(): the maximal runs of non-whitespace characters
RECURSIVE SplitWs(_, _, _)
SplitWs(k, cur, acc) ==
    IF k = <<>> THEN (IF cur = <<>> THEN acc ELSE Append(acc, cur))
    ELSE IF IsSpace(Head(k))
         THEN SplitWs(Tail(k), <<>>, IF cur = <<>> THEN acc ELSE Append(acc, cur))
         ELSE SplitWs(Tail(k), Append(cur, Head(k)), acc)

split(k) == SplitWs(k, <<>>, <<>>)

\* a dict: the sequence of its items [k, v] in insertion order
Item(key, val) == [k |-> key, v |-> val]
Keys(d) == { d[x].k : x \in 1..Len(d) }
Get(d, key) == d[CHOOSE x \in 1..Len(d) : d[x].k = key].v
\* d[key] = val: an existing key keeps its place
Store(d, key, val) ==
    IF key \in Keys(d)
    THEN [x \in 1..Len(d) |-> IF d[x].k = key THEN Item(key, val) ELSE d[x]]
    ELSE Append(d, Item(key, val))

Root == 1
EmptyTree == << <<>> >>

\* the inner loop of dict_to_tree: cur = cur.setdefault(func(chunk), {});
\* setdefault on None raises AttributeError
RECURSIVE Descend(_, _, _)
Descend(t, cur, chunks) ==
    IF chunks = <<>> THEN [nodes |-> t, cur |-> cur, raised |-> FALSE]
    ELSE IF cur = NONE THEN [nodes |-> t, cur |-> cur, raised |-> TRUE]
    ELSE LET key == _default_normalize(Head(chunks))
         IN IF key \in Keys(t[cur])
            THEN Descend(t, Get(t[cur], key), Tail(chunks))
            ELSE LET new == Len(t) + 1
                     t2 == Append([t EXCEPT ![cur] = Append(@, Item(key, new))], <<>>)
                 IN Descend(t2, new, Tail(chunks))

\* one iteration of the outer loop: walk the phrase, then cur[v] = None;
\* item assignment on None raises TypeError
Insert(t, e) ==
    LET w == Descend(t, Root, split(e.k))
    IN IF w.raised \/ w.cur = NONE
       THEN [nodes |-> w.nodes, raised |-> TRUE]
       ELSE [nodes |-> [w.nodes EXCEPT ![w.cur] = Store(@, e.v, NONE)],
             raised |-> FALSE]

RECURSIVE InsertAll(_, _)
InsertAll(r, d) ==
    IF d = <<>> \/ r.raised THEN r
    ELSE InsertAll(Insert(r.nodes, Head(d)), Tail(d))

dict_to_tree(d) == InsertAll([nodes |-> EmptyTree, raised |-> FALSE], d)

\* ------------------------------------------------------- Match and State
Match(mi, mj, ms, mscore) == [i |-> mi, j |-> mj, s |-> ms, score |-> mscore]
\* Match.weighted_score, as the numerator and denominator of score * (j - i)
weighted_score(m) == <<m.score[1] * (m.j - m.i), m.score[2]>>

State(si, sd, sscore) == [i |-> si, d |-> sd, score |-> sscore]
\* a match that ends one token early
as_matchEarly(state, mj, ms) == Match(state.i, mj - 1, ms, state.score)

as_match(state, mj, ms) == Match(state.i, mj, ms, state.score)
\* an update that keeps the ratio of the last step only
updateLastRatio(state, v, score) == State(state.i, v, score)

update(state, v, score) == State(state.i, v, Times(state.score, score))

\* -------------------------------------------------------- select_matches
RECURSIVE SelectLoop(_, _, _, _)
SelectLoop(ms, n, cur_winner, selected_matches) ==
    IF n > Len(ms) THEN Append(selected_matches, cur_winner)
    ELSE LET winner == ms[n]
         IN IF /\ winner.i = cur_winner.i
               /\ GT(weighted_score(winner), weighted_score(cur_winner))
            THEN SelectLoop(ms, n + 1, winner, selected_matches)
            ELSE IF winner.i >= cur_winner.j
                 THEN SelectLoop(ms, n + 1, winner,
                                 Append(selected_matches, cur_winner))
                 ELSE SelectLoop(ms, n + 1, cur_winner, selected_matches)

\* a selection that commits the current winner at every match that does not
\* beat it from the same start, without testing winner.i >= cur_winner.j
RECURSIVE SelectLoopNoEndTest(_, _, _, _)
SelectLoopNoEndTest(ms, n, cur_winner, selected_matches) ==
    IF n > Len(ms) THEN Append(selected_matches, cur_winner)
    ELSE LET winner == ms[n]
         IN IF /\ winner.i = cur_winner.i
               /\ GT(weighted_score(winner), weighted_score(cur_winner))
            THEN SelectLoopNoEndTest(ms, n + 1, winner, selected_matches)
            ELSE SelectLoopNoEndTest(ms, n + 1, winner,
                                     Append(selected_matches, cur_winner))

select_matchesNoEndTest(ms) ==
    IF ms = <<>> THEN <<>> ELSE SelectLoopNoEndTest(ms, 2, ms[1], <<>>)

select_matches(ms) ==
    IF ms = <<>> THEN <<>> ELSE SelectLoop(ms, 2, ms[1], <<>>)

\* --------------------------------------------------- FuzzyReplacerHelper
\* The loops below thread an accumulator [new_states, matches, raised];
\* once raised is set the rest of the iteration is skipped.

\* a root loop that emits a root terminal only for a token that matches it
RECURSIVE RootLoopGated(_, _, _, _, _, _)
RootLoopGated(items, n, ti, word, cut, acc) ==
    IF n > Len(items) THEN acc
    ELSE LET k == items[n].k
             v == items[n].v
             score == word_matches(k, word, cut)
             emitted == IF v = NONE /\ Truthy(score)
                        THEN Append(acc.matches, Match(ti, ti + 1, k, <<0, 1>>))
                        ELSE acc.matches
             grown == IF Truthy(score)
                      THEN Append(acc.new_states, State(ti, v, score))
                      ELSE acc.new_states
         IN RootLoopGated(items, n + 1, ti, word, cut,
                          [acc EXCEPT !.matches = emitted, !.new_states = grown])

\* `for k, v in self._root.items()` of _consume
RECURSIVE RootLoop(_, _, _, _, _, _)
RootLoop(items, n, ti, word, cut, acc) ==
    IF n > Len(items) THEN acc
    ELSE LET k == items[n].k
             v == items[n].v
             score == word_matches(k, word, cut)
             emitted == IF v = NONE
                        THEN Append(acc.matches, Match(ti, ti + 1, k, <<0, 1>>))
                        ELSE acc.matches
             grown == IF Truthy(score)
                      THEN Append(acc.new_states, State(ti, v, score))
                      ELSE acc.new_states
         IN RootLoop(items, n + 1, ti, word, cut,
                     [acc EXCEPT !.matches = emitted, !.new_states = grown])

\* `for k, v in state.items()` of _consume; state.update asserts v is not None
RECURSIVE ItemLoop(_, _, _, _, _, _, _)
ItemLoop(state, items, n, ti, word, cut, acc) ==
    IF n > Len(items) \/ acc.raised THEN acc
    ELSE LET k == items[n].k
             v == items[n].v
             score == word_matches(k, word, cut)
             emitted == IF v = NONE
                        THEN Append(acc.matches, as_match(state, ti, k))
                        ELSE acc.matches
         IN IF Truthy(score) /\ v = NONE
            THEN [acc EXCEPT !.matches = emitted, !.raised = TRUE]
            ELSE ItemLoop(state, items, n + 1, ti, word, cut,
                     [acc EXCEPT !.matches = emitted,
                                 !.new_states =
                                     IF Truthy(score)
                                     THEN Append(@, update(state, v, score))
                                     ELSE @])

\* `for state in self._states` of _consume; items() of a None subtree raises
RECURSIVE StateLoop(_, _, _, _, _, _, _)
StateLoop(t, sts, n, ti, word, cut, acc) ==
    IF n > Len(sts) \/ acc.raised THEN acc
    ELSE IF sts[n].d = NONE THEN [acc EXCEPT !.raised = TRUE]
    ELSE StateLoop(t, sts, n + 1, ti, word, cut,
                   ItemLoop(sts[n], t[sts[n].d], 1, ti, word, cut, acc))

_consume(t, cut, sts, ms, ti, word) ==
    LET start == [new_states |-> <<>>, matches |-> ms, raised |-> FALSE]
        afterRoot == RootLoop(t[Root], 1, ti, word, cut, start)
    IN StateLoop(t, sts, 1, ti, word, cut, afterRoot)

\* the loop of FuzzyReplacerHelper.process that follows the last token
RECURSIVE FlushItems(_, _, _, _, _)
FlushItems(state, items, n, count, ms) ==
    IF n > Len(items) THEN ms
    ELSE FlushItems(state, items, n + 1, count,
                    IF items[n].v = NONE
                    THEN Append(ms, as_match(state, count, items[n].k))
                    ELSE ms)

RECURSIVE FlushLoop(_, _, _, _, _)
FlushLoop(t, sts, n, count, acc) ==
    IF n > Len(sts) \/ acc.raised THEN acc
    ELSE IF sts[n].d = NONE THEN [acc EXCEPT !.raised = TRUE]
    ELSE FlushLoop(t, sts, n + 1, count,
             [acc EXCEPT !.matches = FlushItems(sts[n], t[sts[n].d], 1, count, @)])

flush(t, sts, ms, count) ==
    FlushLoop(t, sts, 1, count, [matches |-> ms, raised |-> FALSE])

\* ---------------------------------------------------------- tokenization
\* SPLIT_REGEX.split(s): words and the separators between them, alternating,
\* beginning and ending with a (possibly empty) word
RECURSIVE ReSplit(_, _, _, _)
ReSplit(rest, cur, acc, inSep) ==
    IF rest = <<>>
    THEN (IF inSep THEN acc \o <<cur, <<>>>> ELSE Append(acc, cur))
    ELSE LET c == Head(rest)
         IN IF IsWordChar(c) = ~inSep
            THEN ReSplit(Tail(rest), Append(cur, c), acc, inSep)
            ELSE ReSplit(Tail(rest), <<c>>, Append(acc, cur), ~inSep)

SPLIT_REGEX_split(text) == ReSplit(text, <<>>, <<>>, FALSE)

\* q[::2] and q[1::2]
Evens(q) == [x \in 1..((Len(q) + 1) \div 2) |-> q[2 * x - 1]]
Odds(q) == [x \in 1..(Len(q) \div 2) |-> q[2 * x]]

\* -------------------------------------------------------- reconstruction
\* a splice that keeps the last word of the match
SpliceWordsKeepLast(ws, match) ==
    PyUpTo(ws, match.i) \o <<match.s>> \o PyFrom(ws, match.j - 1)

SpliceWords(ws, match) == PyUpTo(ws, match.i) \o <<match.s>> \o PyFrom(ws, match.j)
\* a splice that also drops the separator trailing the match
SpliceSpacesNoTrailing(sp, match) == PyUpTo(sp, match.i) \o PyFrom(sp, match.j)

SpliceSpaces(sp, match) == PyUpTo(sp, match.i) \o PyFrom(sp, match.j - 1)

\* "".join(chunk for w_and_s in zip(words, spaces) for chunk in w_and_s)
Join(ws, sp) ==
    Flatten([x \in 1..Min(Len(ws), Len(sp)) |-> ws[x] \o sp[x]])

\* ---------------------------------------------------------------- system
\* FuzzyReplacerHelper.__init__: a helper starts with no state and no match
\* a helper that keeps the states of the previous call
HelperStatesKept == states

HelperStates == <<>>
HelperMatches == <<>>

Init ==
    /\ pc = "new"
    /\ to_by_from = <<>>
    /\ cutoff = DefaultCutoff
    /\ tree = EmptyTree
    /\ s = <<>>
    /\ words = <<>>
    /\ spaces = <<>>
    /\ i = 0
    /\ states = <<>>
    /\ matches = <<>>
    /\ selected = <<>>
    /\ todo = 0
    /\ out = <<>>
    /\ memo = <<>>

\* FuzzyReplacer.__init__ with the default normalize_func
Construct ==
    /\ pc = "new"
    /\ \E d \in Mappings, c \in Cutoffs :
         LET r == dict_to_tree(d)
         IN /\ to_by_from' = d
            /\ cutoff' = c
            /\ tree' = IF r.raised THEN EmptyTree ELSE r.nodes
            /\ pc' = IF r.raised THEN "ctor_raised" ELSE "idle"
    /\ UNCHANGED <<s, words, spaces, i, states, matches, selected, todo,
                   out, memo>>

\* FuzzyReplacer.process, up to the creation of the helper
Enter(text) ==
    LET words_and_spaces == SPLIT_REGEX_split(text)
    IN /\ s' = text
       /\ IF words_and_spaces = <<>>
          THEN /\ out' = text
               /\ pc' = "done"
               /\ UNCHANGED <<words, spaces>>
          ELSE /\ words' = Evens(words_and_spaces)
               /\ spaces' = Append(Odds(words_and_spaces), <<>>)
               /\ out' = <<>>
               /\ pc' = "consume"
       /\ states' = HelperStates
       /\ matches' = HelperMatches
       /\ i' = 0
       /\ selected' = <<>>
       /\ todo' = 0
       /\ UNCHANGED <<to_by_from, cutoff, tree>>

\* the first call of process on the replacer
Begin ==
    /\ pc = "idle"
    /\ \E text \in Texts : Enter(text)
    /\ UNCHANGED memo

\* a later call of process on the same replacer, after the previous call
\* returned or raised.  memo keeps the outcome of the earliest of the
\* consecutive calls made with the same text.
Again ==
    /\ pc \in {"done", "raised"}
    /\ \E text \in Texts :
         /\ Enter(text)
         /\ memo' = IF text # s THEN <<>>
                    ELSE IF memo # <<>> THEN memo
                    ELSE [pc |-> pc, out |-> out]

\* one iteration of the token loop of FuzzyReplacerHelper.process
Consume ==
    /\ pc = "consume"
    /\ LET r == _consume(tree, cutoff, states, matches, i,
                         _default_normalize(words[i + 1]))
       IN /\ matches' = r.matches
          /\ IF r.raised
             THEN /\ pc' = "raised"
                  /\ UNCHANGED <<states, i>>
             ELSE /\ states' = r.new_states
                  /\ i' = i + 1
                  /\ pc' = IF i + 1 < Len(words) THEN "consume" ELSE "flush"
    /\ UNCHANGED <<to_by_from, cutoff, tree, s, words, spaces, selected,
                   todo, out, memo>>

\* the end of FuzzyReplacerHelper.process
Flush ==
    /\ pc = "flush"
    /\ LET r == flush(tree, states, matches, Len(words))
       IN /\ matches' = r.matches
          /\ pc' = IF r.raised THEN "raised" ELSE "matched"
    /\ UNCHANGED <<to_by_from, cutoff, tree, s, words, spaces, i, states,
                   selected, todo, out, memo>>

\* `if not matches: return s`, else select_matches
Select ==
    /\ pc = "matched"
    /\ IF matches = <<>>
       THEN /\ out' = s
            /\ pc' = "done"
            /\ UNCHANGED <<selected, todo>>
       ELSE /\ selected' = select_matches(matches)
            /\ todo' = Len(select_matches(matches))
            /\ pc' = "splice"
            /\ UNCHANGED out
    /\ UNCHANGED <<to_by_from, cutoff, tree, s, words, spaces, i, states,
                   matches, memo>>

\* one iteration of `for match in reversed(matches)`
Splice ==
    /\ pc = "splice"
    /\ todo > 0
    /\ words' = SpliceWords(words, selected[todo])
    /\ spaces' = SpliceSpaces(spaces, selected[todo])
    /\ todo' = todo - 1
    /\ UNCHANGED <<pc, to_by_from, cutoff, tree, s, i, states, matches,
                   selected, out, memo>>

\* the return statement of FuzzyReplacer.process
Return ==
    /\ pc = "splice"
    /\ todo = 0
    /\ out' = Join(words, spaces)
    /\ pc' = "done"
    /\ UNCHANGED <<to_by_from, cutoff, tree, s, words, spaces, i, states,
                   matches, selected, todo, memo>>

Next ==
    \/ Construct
    \/ Begin
    \/ Consume
    \/ Flush
    \/ Select
    \/ Splice
    \/ Return

Spec == Init /\ [][Next]_vars

\* the same replacer called any number of times
NextCalls == Next \/ Again

SpecCalls == Init /\ [][NextCalls]_vars

\* ================================================================ claims
\* the tokens of the text of the current call, before any splice
Words0 == Evens(SPLIT_REGEX_split(s))
Spaces0 == Append(Odds(SPLIT_REGEX_split(s)), <<>>)
Returned == pc = "done"
Ended == pc \in {"done", "raised"}
Constructed == pc \notin {"new", "ctor_raised"}
\* every phrase of the mapping has at least one word
NoEmptyPhrase == \A n \in 1..Len(to_by_from) : split(to_by_from[n].k) # <<>>

\* words joined by single spaces
RECURSIVE JoinSpace(_)
JoinSpace(ws) ==
    IF ws = <<>> THEN <<>>
    ELSE IF Len(ws) = 1 THEN Head(ws)
    ELSE Head(ws) \o <<" ">> \o JoinSpace(Tail(ws))

PlainPhrase(k) == split(k) # <<>> /\ JoinSpace(split(k)) = k

\* C1: for every entry (phrase, replacement) of the mapping, the phrase being
\* plain words separated by single spaces, process(phrase) returns exactly
\* the replacement, whatever the other entries are.
C1_ExactMatchGuarantee ==
    (Returned /\ \A n \in 1..Len(to_by_from) : PlainPhrase(to_by_from[n].k))
        => \A n \in 1..Len(to_by_from) :
               s = to_by_from[n].k => out = to_by_from[n].v

\* C2: with a mapping of a single n-word phrase, every run of n consecutive
\* tokens whose k-th normalized token reaches the cutoff against the k-th
\* normalized phrase word, and that overlaps no other such run, is replaced
\* by the replacement: process returns and the run is a selected match.
PhraseWords == [x \in 1..Len(split(to_by_from[1].k)) |->
                    _default_normalize(split(to_by_from[1].k)[x])]
Similar(chunk, word) == GE(ratio(chunk, word), cutoff)
RunAt(p) ==
    /\ p + Len(PhraseWords) <= Len(Words0)
    /\ \A x \in 1..Len(PhraseWords) :
           Similar(PhraseWords[x], _default_normalize(Words0[p + x]))
LoneRunAt(p) ==
    /\ RunAt(p)
    /\ \A q \in 0..(Len(Words0) - 1) :
           (q # p /\ q < p + Len(PhraseWords) /\ p < q + Len(PhraseWords))
               => ~RunAt(q)
C2_FuzzyReplacement ==
    (Ended /\ Len(to_by_from) = 1 /\ Len(PhraseWords) >= 1)
        => \A p \in 0..(Len(Words0) - 1) :
               LoneRunAt(p)
                   => /\ Returned
                      /\ \E x \in 1..Len(selected) :
                             /\ selected[x].i = p
                             /\ selected[x].j = p + Len(PhraseWords)
                             /\ selected[x].s = to_by_from[1].v

\* C3: if the mapping is empty, or the text is empty, or the matcher emits
\* no match for the text, process returns the text unchanged.
C3_IdentityWhenNothingMatches ==
    (Ended /\ (to_by_from = <<>> \/ s = <<>> \/ matches = <<>>))
        => (Returned /\ out = s)

\* C4: the output is, in order, the words before each selected match with
\* their separators, the replacement followed by the separator that trails
\* the match, and the words after it with their separators; this holds after
\* every splice of the reconstruction loop and for the returned string.
RECURSIVE Rendered(_, _, _, _)
Rendered(ws, sp, sel, p) ==
    IF p >= Len(ws) THEN <<>>
    ELSE IF \E x \in 1..Len(sel) : sel[x].i = p
         THEN LET m == sel[CHOOSE x \in 1..Len(sel) : sel[x].i = p]
              IN m.s \o sp[m.j] \o Rendered(ws, sp, sel, m.j)
         ELSE ws[p + 1] \o sp[p + 1] \o Rendered(ws, sp, sel, p + 1)

C4_ReconstructionFrame ==
    /\ pc = "splice" =>
           Join(words, spaces) =
               Rendered(Words0, Spaces0,
                        SubSeq(selected, todo + 1, Len(selected)), 0)
    /\ (Returned /\ selected # <<>>) =>
           out = Rendered(Words0, Spaces0, selected, 0)

\* a match of two words was selected, with a word and a separator before it
C4_Witness ==
    /\ Returned
    /\ \E x \in 1..Len(selected) :
           selected[x].i > 0 /\ selected[x].j - selected[x].i >= 2

\* C5: the list returned by select_matches on the matches the matcher
\* emitted has match[k].end <= match[k+1].start for all adjacent pairs, and
\* is strictly ordered by start index.
C5_NonOverlap ==
    \A x \in 1..(Len(selected) - 1) :
        /\ selected[x].j <= selected[x + 1].i
        /\ selected[x].i < selected[x + 1].i

StartOrdered(ms) == \A x \in 1..(Len(ms) - 1) : ms[x].i <= ms[x + 1].i

\* two matches were selected out of a list emitted out of start order
C5_Witness ==
    /\ Returned
    /\ NoEmptyPhrase
    /\ Len(selected) >= 2
    /\ ~StartOrdered(matches)

\* C6: every selected match has the maximal weighted score among all the
\* emitted matches that share its start index (stated for the mappings whose
\* phrases all have at least one word).
C6_SameStartTieBreak ==
    (pc \in {"splice", "done"} /\ NoEmptyPhrase) =>
        \A x \in 1..Len(selected), y \in 1..Len(matches) :
            matches[y].i = selected[x].i
                => ~GT(weighted_score(matches[y]), weighted_score(selected[x]))

\* C7: constructing a replacer from a mapping with an entry whose phrase is
\* empty or splits into zero words raises.
C7_EmptyPhraseRejected ==
    (pc # "new" /\ \E n \in 1..Len(to_by_from) : split(to_by_from[n].k) = <<>>)
        => pc = "ctor_raised"

\* C8: no call of process modifies the trie built at construction, a call
\* starts with an empty state set and an empty match list whatever came
\* before it, and a call made with the text of an earlier call ends as the
\* earlier call did.
C8_CallIsolation ==
    /\ Constructed => tree = dict_to_tree(to_by_from).nodes
    /\ (pc = "consume" /\ i = 0) => (states = <<>> /\ matches = <<>>)
    /\ (Ended /\ memo # <<>>) => (memo.pc = pc /\ memo.out = out)

\* a repeated call returned a text with a replacement made
C8_Witness == Returned /\ memo # <<>> /\ out # s /\ states # <<>>

\* C9: the match list produced by FuzzyReplacerHelper.process is in
\* non-decreasing start-index order (stated for the mappings whose phrases
\* all have at least one word).
C9_EmissionOrder == (Returned /\ NoEmptyPhrase) => StartOrdered(matches)

\* C10: while consuming token i every active state emits exactly one match
\* per terminal of its node, with the state's start, end i and the state's
\* score, and in the flush every state still active does so with end
\* token_count: nothing else is emitted with these ends and nothing is lost
\* (stated for the mappings whose phrases all have at least one word).
Terminals(d) == SelectSeq(d, LAMBDA it : it.v = NONE)
RECURSIVE Due(_, _, _)
Due(sts, n, mj) ==
    IF n > Len(sts) THEN <<>>
    ELSE (IF sts[n].d = NONE THEN <<>>
          ELSE [x \in 1..Len(Terminals(tree[sts[n].d])) |->
                    Match(sts[n].i, mj, Terminals(tree[sts[n].d])[x].k,
                          sts[n].score)])
         \o Due(sts, n + 1, mj)
Emitted(old, new, mj) ==
    SelectSeq(SubSeq(new, Len(old) + 1, Len(new)), LAMBDA m : m.j = mj)

C10_TerminalEmission ==
    [][NoEmptyPhrase =>
           /\ pc = "consume" =>
                  Emitted(matches, matches', i) = Due(states, 1, i)
           /\ pc = "flush" =>
                  Emitted(matches, matches', Len(words))
                      = Due(states, 1, Len(words))
      ]_vars

\* C11: after consuming token i with normalized form w the active-state set
\* is exactly the states {i, child(k), r} for the phrase-word edges k of the
\* root with r = score(k, w) >= cutoff, together with the successors
\* {st.start, child(k), st.score * r} of the previously active states st; no
\* state comes from anything but a phrase-word edge, and every active state's
\* node is at trie depth i - start + 1.
Range(q) == { q[x] : x \in 1..Len(q) }
Edges(d) == { it \in Range(d) : it.v # NONE }
Reached(d, w) == { it \in Edges(d) : Similar(it.k, w) }
Successors(sts, ti, w) ==
    { State(ti, it.v, ratio(it.k, w)) : it \in Reached(tree[Root], w) }
    \cup UNION { { State(st.i, it.v, Times(st.score, ratio(it.k, w))) :
                       it \in Reached(tree[st.d], w) } :
                 st \in { x \in Range(sts) : x.d # NONE } }
HasParent(node) ==
    \E p \in 1..Len(tree) : \E it \in Range(tree[p]) : it.v = node
ParentOf(node) ==
    CHOOSE p \in 1..Len(tree) : \E it \in Range(tree[p]) : it.v = node
RECURSIVE DepthOf(_)
DepthOf(node) ==
    IF node = Root THEN 0
    ELSE IF node = NONE \/ ~HasParent(node) THEN -1
    ELSE 1 + DepthOf(ParentOf(node))

C11_StateSetTransition ==
    [][(pc = "consume" /\ pc' # "raised") =>
           /\ Range(states') =
                  Successors(states, i, _default_normalize(words[i + 1]))
           /\ \A st \in Range(states') : DepthOf(st.d) = i - st.i + 1
      ]_vars

\* C12: every state score and every emitted match score is in [0,1]; when a
\* state advances its successor's score is the product of its own score and
\* the ratio of the step, hence <= its own score; an emitted match carries
\* the score of the state it ends (or zero), so the score of an N-word match
\* is <= the score of each of its prefixes.
InUnit(q) == q[2] > 0 /\ 0 <= q[1] /\ q[1] <= q[2]
ScoresInUnit ==
    /\ \A st \in Range(states) : InUnit(st.score)
    /\ \A m \in Range(matches) : InUnit(m.score)
AdvanceShrinks(w) ==
    \A st \in { x \in Range(states') : x.i < i } :
        \E old \in { x \in Range(states) : x.i = st.i /\ x.d # NONE } :
            \E it \in Edges(tree[old.d]) :
                /\ it.v = st.d
                /\ st.score = Times(old.score, ratio(it.k, w))
                /\ GE(old.score, st.score)
MatchEndsState ==
    \A x \in (Len(matches) + 1)..Len(matches') :
        \/ matches'[x].score = <<0, 1>>
        \/ \E old \in Range(states) :
               old.i = matches'[x].i /\ old.score = matches'[x].score
C12_MonotonicScore ==
    /\ []ScoresInUnit
    /\ [][/\ pc \in {"consume", "flush"} => MatchEndsState
          /\ (pc = "consume" /\ pc' # "raised") =>
                 AdvanceShrinks(_default_normalize(words[i + 1]))
         ]_vars
C12_Witness ==
    /\ Returned
    /\ \E m \in Range(matches) :
           m.j - m.i >= 2 /\ GT(m.score, <<0, 1>>) /\ GT(<<1, 1>>, m.score)

\* C13 (as stated): for a mapping that contains a single-word phrase, the
\* matcher emits a zero-score match [p, p+1) carrying that phrase's
\* replacement at every token position p of the text.
Matched == pc \in {"matched", "splice", "done"}
C13_SingleWordFiresUnconditionally ==
    Matched =>
        \A n \in 1..Len(to_by_from) :
            Len(split(to_by_from[n].k)) = 1 =>
                \A p \in 0..(Len(Words0) - 1) :
                    Match(p, p + 1, to_by_from[n].v, <<0, 1>>) \in Range(matches)

\* C13 (amended): it is an entry whose phrase has no word (an empty or
\* all-whitespace phrase) that makes the matcher emit a zero-score match
\* [p, p+1) carrying its replacement for every token p it consumes, whether
\* or not the token resembles anything; when every phrase has a word, every
\* match has a positive score and a one-token match starts at a token that
\* reaches the cutoff against a phrase-word edge of the root.
Consumed == IF pc = "raised" /\ i < Len(Words0) THEN i + 1 ELSE i
C13_EmptyPhraseFiresUnconditionally ==
    (Constructed /\ pc # "idle") =>
        /\ \A n \in 1..Len(to_by_from) :
               split(to_by_from[n].k) = <<>> =>
                   \A p \in 0..(Consumed - 1) :
                       Match(p, p + 1, to_by_from[n].v, <<0, 1>>)
                           \in Range(matches)
        /\ NoEmptyPhrase =>
               \A m \in Range(matches) :
                   /\ GT(m.score, <<0, 1>>)
                   /\ m.j = m.i + 1 =>
                          \E it \in Edges(tree[Root]) :
                              Similar(it.k, _default_normalize(Words0[m.i + 1]))
C13_Witness ==
    /\ Returned
    /\ Len(Words0) >= 2
    /\ \E n \in 1..Len(to_by_from) :
           /\ split(to_by_from[n].k) = <<>>
           /\ \A p \in 0..(Len(Words0) - 1) :
                  /\ Match(p, p + 1, to_by_from[n].v, <<0, 1>>) \in Range(matches)
                  /\ ~Similar(to_by_from[n].v, _default_normalize(Words0[p + 1]))

\* C14: after dict_to_tree, whatever the replacement strings and the phrase
\* words are (phrases with at least one word), construction has not raised
\* and for every entry the path of the phrase's normalized words exists from
\* the root and its last node carries the replacement as a terminal: storing
\* a terminal never removes or blocks a child edge.
RECURSIVE Walk(_, _)
Walk(node, chunks) ==
    IF chunks = <<>> THEN node
    ELSE IF node = NONE THEN NONE
    ELSE LET key == _default_normalize(Head(chunks))
         IN IF key \in Keys(tree[node])
            THEN Walk(Get(tree[node], key), Tail(chunks))
            ELSE NONE
C14_TerminalsIndependentOfChildren ==
    (pc # "new" /\ NoEmptyPhrase) =>
        /\ pc # "ctor_raised"
        /\ \A n \in 1..Len(to_by_from) :
               LET node == Walk(Root, split(to_by_from[n].k))
               IN /\ node # NONE
                  /\ Item(to_by_from[n].v, NONE) \in Range(tree[node])

\* the node in which dict_to_tree stores the terminal of the n-th entry
NodeOf(n) ==
    Descend(InsertAll([nodes |-> EmptyTree, raised |-> FALSE],
                      SubSeq(to_by_from, 1, n - 1)).nodes,
            Root, split(to_by_from[n].k)).cur
SameNode(n, m) == n < m /\ NodeOf(n) = NodeOf(m)
TextIsPhrase(n) == s = to_by_from[n].k

\* C15: when two entries lead to the same trie node, the later
\* entry's replacement overwrites the earlier one's terminal, so the node
\* carries only the later replacement and process of the phrase returns the
\* later replacement.
C15_LastWriteWins ==
    Constructed =>
        \A n \in 1..Len(to_by_from), m \in 1..Len(to_by_from) :
            (SameNode(n, m) /\ to_by_from[n].v # to_by_from[m].v) =>
                /\ Item(to_by_from[n].v, NONE) \notin Range(tree[NodeOf(m)])
                /\ (Returned /\ (TextIsPhrase(n) \/ TextIsPhrase(m))) =>
                       out = to_by_from[m].v

\* C16: the word list and the separator list have the same length after
\* tokenization (one entry per token) and after every splice of the
\* reconstruction loop; each splice of a match [i, j) shortens both lists by
\* j - i - 1, and the returned text interleaves all of both lists.
Tokenized == pc \in {"consume", "flush", "matched", "raised"}
SameCardinality ==
    /\ Len(words) = Len(spaces)
    /\ Tokenized => Len(words) = Len(Words0)
    /\ (Returned /\ selected # <<>>) =>
           out = Flatten([x \in 1..Len(words) |-> words[x] \o spaces[x]])
SpliceShortens ==
    (pc = "splice" /\ todo > 0) =>
        LET cut == selected[todo].j - selected[todo].i - 1
        IN /\ Len(words') = Len(words) - cut
           /\ Len(spaces') = Len(spaces) - cut
C16_WordsSeparatorsCardinality ==
    []SameCardinality /\ [][SpliceShortens]_vars
C16_Witness ==
    /\ pc = "splice"
    /\ todo < Len(selected)
    /\ selected[todo + 1].j - selected[todo + 1].i >= 2
    /\ Len(words) < Len(Words0)
    /\ Len(spaces) = Len(words)

\* C17: for every mapping whose phrases all have at least one word and every
\* text, State.update is never called with a None subtree, no state holds a
\* None node, and process does not raise.
C17_NoCrash ==
    NoEmptyPhrase =>
        /\ pc # "raised"
        /\ \A st \in Range(states) : st.d # NONE

\* C18: every match emitted by the matcher, hence every selected match, has
\* 0 <= start < end <= token count, and every slice of the reconstruction
\* loop, separators[end - 1] included, is within the lists.
InBounds(m) == 0 <= m.i /\ m.i < m.j /\ m.j <= Len(Words0)
C18_MatchBounds ==
    /\ \A m \in Range(matches) \cup Range(selected) : InBounds(m)
    /\ (pc = "splice" /\ todo > 0) =>
           /\ selected[todo].j <= Len(words)
           /\ selected[todo].j - 1 < Len(spaces)
C18_Witness ==
    /\ Returned
    /\ \E m \in Range(selected) : m.j = Len(Words0) /\ m.j - m.i >= 2

====
